---------------------------- MODULE Spec2Model ----------------------------
(***************************************************************************)
(* Model of the registration chatbot's dialogue route (src/messageRoute.ts) *)
(* : the in-memory session map, the POST /message handler with its          *)
(* suspension points, the field extractor (collectFields), the step         *)
(* sequencer (findNextField), the prompt composer (promptFor), the Record   *)
(* Store insert (saveRegistration) and the closing message                  *)
(* (buildWelcomeMessage).  Messages are real strings; the regular           *)
(* expressions of the source are evaluated character by character.          *)
(***************************************************************************)
EXTENDS Naturals, Sequences, FiniteSets, TLC

(***************************************************************************)
(* Characters and strings                                                   *)
(***************************************************************************)
Ch(s, i) == IF i >= 1 /\ i <= Len(s) THEN SubSeq(s, i, i) ELSE ""

UpperAlphabet == "ABCDEFGHIJKLMNOPQRSTUVWXYZ"

LowerAlphabet == "abcdefghijklmnopqrstuvwxyz"

DigitAlphabet == "0123456789"

CharsOf(s) == {SubSeq(s, i, i) : i \in 1..Len(s)}

UpperChars == CharsOf(UpperAlphabet)

LowerChars == CharsOf(LowerAlphabet)

DigitChars == CharsOf(DigitAlphabet)

\* [A-Za-z]
IsLetter(c) == c \in UpperChars \/ c \in LowerChars

\* \d
IsDigit(c) == c \in DigitChars

\* \w
IsWordChar(c) == IsLetter(c) \/ IsDigit(c) \/ c = "_"

\* \s (the white space the messages of the model use)
IsSpace(c) == c \in {" ", "\t", "\n"}

\* [\w\s'-]
IsCaptureChar(c) == IsWordChar(c) \/ IsSpace(c) \/ c = "'" \/ c = "-"

LowerOfChar(c) ==
    IF c \in UpperChars
    THEN LET i == CHOOSE k \in 1..Len(UpperAlphabet) : Ch(UpperAlphabet, k) = c
         IN  Ch(LowerAlphabet, i)
    ELSE c

RECURSIVE toLowerCase(_)
\* String.prototype.toLowerCase
toLowerCase(s) ==
    IF Len(s) = 0 THEN ""
    ELSE LowerOfChar(Ch(s, 1)) \o toLowerCase(SubSeq(s, 2, Len(s)))

RECURSIVE trimStart(_)
trimStart(s) ==
    IF Len(s) > 0 /\ IsSpace(Ch(s, 1)) THEN trimStart(SubSeq(s, 2, Len(s))) ELSE s

RECURSIVE trimEnd(_)
trimEnd(s) ==
    IF Len(s) > 0 /\ IsSpace(Ch(s, Len(s))) THEN trimEnd(SubSeq(s, 1, Len(s) - 1)) ELSE s

\* String.prototype.trim
trim(s) == trimEnd(trimStart(s))

\* s has t at position i
HasAt(s, i, t) == i >= 1 /\ i + Len(t) - 1 <= Len(s) /\ SubSeq(s, i, i + Len(t) - 1) = t

\* String.prototype.includes
includes(s, t) == \E i \in 1..(Len(s) + 1) : HasAt(s, i, t)

\* \b between the characters i-1 and i of s
WordBoundary(s, i) == IsWordChar(Ch(s, i - 1)) # IsWordChar(Ch(s, i))

\* /\b(w1|w2|...)\b/.test(s)
HasWord(s, words) ==
    \E i \in 1..Len(s) : \E w \in words :
        HasAt(s, i, w) /\ WordBoundary(s, i) /\ WordBoundary(s, i + Len(w))

RECURSIVE SpaceRunEnd(_, _)
\* the position after the white space that starts at i (\s+ is greedy)
SpaceRunEnd(s, i) == IF IsSpace(Ch(s, i)) THEN SpaceRunEnd(s, i + 1) ELSE i

RECURSIVE CaptureRunEnd(_, _, _)
\* the position after at most n characters of [\w\s'-] that start at i (greedy)
CaptureRunEnd(s, i, n) ==
    IF n > 0 /\ IsCaptureChar(Ch(s, i)) THEN CaptureRunEnd(s, i + 1, n - 1) ELSE i

\* {1,60}
CaptureMax == 60

(***************************************************************************)
(* /\b(?:k1|k2|...)\s+([A-Za-z][\w\s'-]{1,60})/i matched at position i with  *)
(* keyword k: the position after the match, or 0 when it does not match.    *)
(* \s+ gives nothing back that helps: white space is no letter.             *)
(***************************************************************************)
KeywordMatchEnd(s, i, k) ==
    IF ~(WordBoundary(s, i) /\ HasAt(toLowerCase(s), i, k)) THEN 0
    ELSE LET a == i + Len(k)
             b == SpaceRunEnd(s, a)
             e == CaptureRunEnd(s, b + 1, CaptureMax)
         IN  IF b > a /\ IsLetter(Ch(s, b)) /\ e > b + 1 THEN e ELSE 0

\* the capture group of the leftmost match, or "" when there is none
KeywordCapture(s, keywords) ==
    LET hits == {i \in 1..Len(s) : \E k \in keywords : KeywordMatchEnd(s, i, k) > 0}
    IN  IF hits = {} THEN ""
        ELSE LET i == CHOOSE h \in hits : \A g \in hits : h <= g
                 k == CHOOSE w \in keywords : KeywordMatchEnd(s, i, w) > 0
                 b == SpaceRunEnd(s, i + Len(k))
             IN  SubSeq(s, b, KeywordMatchEnd(s, i, k) - 1)


(***************************************************************************)
(* Values: a property of a JavaScript object is undefined or holds a value. *)
(***************************************************************************)
Undefined == <<>>

Some(v) == <<v>>

\* the fixed field order
steps == <<"name", "dateOfBirth", "gender", "usesBudgetApp", "budgetAppName">>

Fields == {steps[i] : i \in 1..Len(steps)}

\* data: {}
EmptyData == [f \in Fields |-> Undefined]

\* !value for a string property: undefined or ""
Falsy(v) == v = Undefined \/ v = Some("")

\* the new session of a first message
NewSession == [data |-> EmptyData, currentStep |-> "name", completed |-> FALSE]

NameKeywords == {"name is", "i am", "i'm"}

AppKeywords == {"app", "application", "called", "using"}

YesWords == {"yes", "yep", "yeah", "sure", "true"}

NoWords == {"no", "nope", "nah", "false"}

\* DateShapeAt without the two \b
DateShapeAtUnbounded(s, i) ==
    /\ i + 9 <= Len(s)
    /\ \A k \in {0, 1, 2, 3, 5, 6, 8, 9} : IsDigit(Ch(s, i + k))
    /\ Ch(s, i + 4) = "-" /\ Ch(s, i + 7) = "-"

\* /\b\d{4}-\d{2}-\d{2}\b/ at position i
DateShapeAt(s, i) ==
    /\ i + 9 <= Len(s)
    /\ \A k \in {0, 1, 2, 3, 5, 6, 8, 9} : IsDigit(Ch(s, i + k))
    /\ Ch(s, i + 4) = "-" /\ Ch(s, i + 7) = "-"
    /\ WordBoundary(s, i) /\ WordBoundary(s, i + 10)

\* message.match(/\b\d{4}-\d{2}-\d{2}\b/): the leftmost match, or "" when none
dobMatch(s) ==
    LET hits == {i \in 1..Len(s) : DateShapeAt(s, i)}
    IN  IF hits = {} THEN ""
        ELSE LET i == CHOOSE h \in hits : \A g \in hits : h <= g
             IN  SubSeq(s, i, i + 9)

\* dobRegex.test(d) for a d of the shape dddd-dd-dd
dobRegex(d) ==
    LET m1 == Ch(d, 6)
        m2 == Ch(d, 7)
        d1 == Ch(d, 9)
        d2 == Ch(d, 10)
    IN  /\ Len(d) = 10
        /\ \A k \in 1..4 : IsDigit(Ch(d, k))
        /\ Ch(d, 5) = "-" /\ Ch(d, 8) = "-"
        /\ \/ m1 = "0" /\ m2 \in CharsOf("123456789")
           \/ m1 = "1" /\ m2 \in CharsOf("012")
        /\ \/ d1 = "0" /\ d2 \in CharsOf("123456789")
           \/ d1 \in CharsOf("12") /\ IsDigit(d2)
           \/ d1 = "3" /\ d2 \in CharsOf("01")

(***************************************************************************)
(* The message texts of the model, and what the patterns of collectFields   *)
(* find in each.  Facts is the table of these results (a constant, computed *)
(* once); collectFields reads the row of its message.                       *)
(***************************************************************************)
Vocabulary ==
    {"", "  ", "Ada", "My name is Ada Lovelace", "1990-05-10", "1990-02-31",
     "1990-13-01", "x1990-05-10", "born 1990-13-01 or 1990-05-10",
     "male", "female", "other", "male or other", "yes", "no", "Mint", "using YNAB"}

\* texts that only the checks of the pure functions use
MoreVocabulary ==
    {" Ada ", "I am A", "i'm Bob, male, born 1985-12-01, yes I use the app called YNAB!",
     "born 1990-05-10 or 1990-13-01", "1990-05-10x", "Nope, but my brother does",
     "sure, using Mint", "the application called You Need A Budget", "Other",
     "yes and no", "nah", "\tMint\n"}

AllMessages == Vocabulary \cup MoreVocabulary

\* message.match(/\b(?:name is|i am|i'm)\s+([A-Za-z][\w\s'-]{1,60})/i), "" for null
nameMatch(message) == KeywordCapture(message, NameKeywords)

\* message.match(/\b(?:app|application|called|using)\s+([A-Za-z][\w\s'-]{1,60})/i)
appNameMatch(message) == KeywordCapture(message, AppKeywords)

\* genderOf with the test of "other" first
genderOfOtherFirst(message) ==
    LET lower == toLowerCase(message)
    IN  IF includes(lower, "other") THEN "other"
        ELSE IF includes(lower, "male") THEN "male"
        ELSE IF includes(lower, "female") THEN "female"
        ELSE ""

\* genderOf with the test of "female" first
genderOfFemaleFirst(message) ==
    LET lower == toLowerCase(message)
    IN  IF includes(lower, "female") THEN "female"
        ELSE IF includes(lower, "male") THEN "male"
        ELSE IF includes(lower, "other") THEN "other"
        ELSE ""

\* the first of the three gender tests that matches, "" when none does
genderOf(message) ==
    LET lower == toLowerCase(message)
    IN  IF includes(lower, "male") THEN "male"
        ELSE IF includes(lower, "female") THEN "female"
        ELSE IF includes(lower, "other") THEN "other"
        ELSE ""

\* the first of the two budget-app tests that matches, "" when none does
usesOf(message) ==
    LET lower == toLowerCase(message)
    IN  IF HasWord(lower, YesWords) THEN "yes"
        ELSE IF HasWord(lower, NoWords) THEN "no"
        ELSE ""

\* dateOf without dobRegex.test
dateOfUnchecked(message) == dobMatch(message)

\* dobMatch && dobRegex.test(dobMatch[0]): the date stored, "" when none is
dateOf(message) ==
    LET m == dobMatch(message)
    IN  IF m # "" /\ dobRegex(m) THEN m ELSE ""

Facts ==
    [m \in AllMessages |->
        [trimmed |-> trim(m), name |-> nameMatch(m), app |-> appNameMatch(m),
         gender |-> genderOf(m), uses |-> usesOf(m), date |-> dateOf(m)]]

(***************************************************************************)
(* collectFields: the updates of each field, as a function from the keys    *)
(* written to `updates` to their values.                                    *)
(***************************************************************************)
NoUpdates == [f \in {} |-> Undefined]

Assign(f, v) == [k \in {f} |-> v]

\* nameUpdates without the whole-message fallback
nameUpdatesPatternOnly(session, facts) ==
    IF ~Falsy(session.data["name"]) THEN NoUpdates
    ELSE IF facts.name # "" THEN Assign("name", Some(trim(facts.name)))
    ELSE NoUpdates

nameUpdates(session, facts) ==
    IF ~Falsy(session.data["name"]) THEN NoUpdates
    ELSE IF facts.name # "" THEN Assign("name", Some(trim(facts.name)))
    ELSE IF session.currentStep = "name" THEN Assign("name", Some(facts.trimmed))
    ELSE NoUpdates

dateOfBirthUpdates(session, facts) ==
    IF ~Falsy(session.data["dateOfBirth"]) THEN NoUpdates
    ELSE IF facts.date # "" THEN Assign("dateOfBirth", Some(facts.date))
    ELSE NoUpdates

\* genderUpdates without the test that gender is unset
genderUpdatesOverwriting(session, facts) ==
    IF facts.gender # "" THEN Assign("gender", Some(facts.gender)) ELSE NoUpdates

genderUpdates(session, facts) ==
    IF ~Falsy(session.data["gender"]) THEN NoUpdates
    ELSE IF facts.gender # "" THEN Assign("gender", Some(facts.gender))
    ELSE NoUpdates

usesBudgetAppUpdates(session, facts) ==
    IF session.data["usesBudgetApp"] # Undefined THEN NoUpdates
    ELSE IF facts.uses = "yes" THEN Assign("usesBudgetApp", Some(TRUE))
    ELSE IF facts.uses = "no"
         THEN Assign("usesBudgetApp", Some(FALSE)) @@ Assign("budgetAppName", Undefined)
         ELSE NoUpdates

\* session.data.usesBudgetApp || updates.usesBudgetApp
usesOrJustSet(session, updates) ==
    \/ session.data["usesBudgetApp"] = Some(TRUE)
    \/ ("usesBudgetApp" \in DOMAIN updates /\ updates["usesBudgetApp"] = Some(TRUE))

\* budgetAppNameUpdates without the test of usesBudgetApp
budgetAppNameUpdatesUnguarded(session, facts, updates) ==
    IF ~Falsy(session.data["budgetAppName"]) THEN NoUpdates
    ELSE IF facts.app # "" THEN Assign("budgetAppName", Some(trim(facts.app)))
    ELSE IF session.currentStep = "budgetAppName"
         THEN Assign("budgetAppName", Some(facts.trimmed))
    ELSE NoUpdates

\* budgetAppNameUpdates without the whole-message fallback
budgetAppNameUpdatesPatternOnly(session, facts, updates) ==
    IF ~(usesOrJustSet(session, updates) /\ Falsy(session.data["budgetAppName"]))
    THEN NoUpdates
    ELSE IF facts.app # ""
         THEN Assign("budgetAppName", Some(trim(facts.app)))
    ELSE NoUpdates

\* `updates` is what the earlier sections of collectFields have written
budgetAppNameUpdates(session, facts, updates) ==
    IF ~(usesOrJustSet(session, updates) /\ Falsy(session.data["budgetAppName"]))
    THEN NoUpdates
    ELSE IF facts.app # ""
         THEN Assign("budgetAppName", Some(trim(facts.app)))
    ELSE IF usesOrJustSet(session, updates) /\ session.currentStep = "budgetAppName"
         THEN Assign("budgetAppName", Some(facts.trimmed))
    ELSE NoUpdates

\* { ...updates }: the old fields are dropped
mergeDataUpdatesOnly(data, updates) ==
    [f \in Fields |-> IF f \in DOMAIN updates THEN updates[f] ELSE Undefined]

\* { ...data, ...updates }
mergeData(data, updates) ==
    [f \in Fields |-> IF f \in DOMAIN updates THEN updates[f] ELSE data[f]]

\* !text.trim()
isBlank(text) == Facts[text].trimmed = ""

\* collectUpdates without the section of name
collectUpdatesWithoutName(session, facts) ==
    LET u4 == usesBudgetAppUpdates(session, facts)
    IN  budgetAppNameUpdates(session, facts, u4) @@ u4
        @@ genderUpdates(session, facts)
        @@ dateOfBirthUpdates(session, facts)

\* the object `updates` at the end of collectFields
collectUpdates(session, facts) ==
    LET u4 == usesBudgetAppUpdates(session, facts)
    IN  budgetAppNameUpdates(session, facts, u4) @@ u4
        @@ genderUpdates(session, facts)
        @@ dateOfBirthUpdates(session, facts)
        @@ nameUpdates(session, facts)

\* the session after collectFields(session, message)
collectFields(session, message) ==
    [session EXCEPT !.data = mergeData(session.data, collectUpdates(session, Facts[message]))]

(***************************************************************************)
(* findNextField: the first step to ask for, Undefined for null.            *)
(***************************************************************************)
\* data[step] === undefined || data[step] === "" (a boolean is never === "")
IsUnset(data, step) ==
    \/ data[step] = Undefined
    \/ step # "usesBudgetApp" /\ data[step] = Some("")

\* Skipped with the test of usesBudgetApp turned around
SkippedOnYes(data, step) == step = "budgetAppName" /\ data["usesBudgetApp"] = Some(TRUE)

Skipped(data, step) == step = "budgetAppName" /\ data["usesBudgetApp"] = Some(FALSE)

\* findNextField without the skip of budgetAppName
findNextFieldNoSkip(data) ==
    LET open == {i \in 1..Len(steps) : IsUnset(data, steps[i])}
    IN  IF open = {} THEN Undefined
        ELSE Some(steps[CHOOSE i \in open : \A j \in open : i <= j])

\* findNextField without the test data[step] === ""
findNextFieldEmptyIsSet(data) ==
    LET open == {i \in 1..Len(steps) :
                    ~Skipped(data, steps[i]) /\ data[steps[i]] = Undefined}
    IN  IF open = {} THEN Undefined
        ELSE Some(steps[CHOOSE i \in open : \A j \in open : i <= j])

findNextField(data) ==
    LET open == {i \in 1..Len(steps) : ~Skipped(data, steps[i]) /\ IsUnset(data, steps[i])}
    IN  IF open = {} THEN Undefined
        ELSE Some(steps[CHOOSE i \in open : \A j \in open : i <= j])

NamePrompt == "What is your name?"

promptFor(step, data) ==
    CASE step = "name" -> NamePrompt
      [] step = "dateOfBirth" -> "What is your date of birth? (YYYY-MM-DD)"
      [] step = "gender" -> "What is your gender? Please reply \"male\", \"female\", or \"other\"."
      [] step = "usesBudgetApp" -> "Do you use a budget app? (yes/no)"
      [] step = "budgetAppName" ->
            IF data["usesBudgetApp"] = Some(TRUE)
            THEN "What is the name of the budget app you use?"
            ELSE "What is the name of your budget app?"
      [] OTHER -> "Thanks for the details!"

\* the fallback sentence of buildWelcomeMessage
fallbackMessage(data) ==
    LET name == IF data["name"] = Undefined THEN "friend" ELSE data["name"][1]
        dob == IF Falsy(data["dateOfBirth"]) THEN "" ELSE ", born " \o data["dateOfBirth"][1]
        gender == IF Falsy(data["gender"]) THEN "" ELSE ", gender: " \o data["gender"][1]
        budgetApp ==
            IF data["usesBudgetApp"] = Undefined THEN ""
            ELSE IF data["usesBudgetApp"] = Some(TRUE)
                 THEN ", budget app: " \o (IF data["budgetAppName"] = Undefined
                                           THEN "unspecified" ELSE data["budgetAppName"][1])
                 ELSE ", no budget app"
    IN  "Registration complete for " \o name \o dob \o gender \o budgetApp \o ". Welcome!"

\* the row saveRegistration inserts
payload(data, userId) ==
    [user_id |-> userId,
     name |-> data["name"],
     date_of_birth |-> data["dateOfBirth"],
     gender |-> data["gender"],
     uses_budget_app |-> data["usesBudgetApp"],
     budget_app_name |-> IF data["usesBudgetApp"] = Some(TRUE) THEN data["budgetAppName"]
                         ELSE Undefined,
     completed |-> TRUE]


(***************************************************************************)
(* The server: the session map and the requests in flight.                  *)
(***************************************************************************)
\* the user identifiers of the model; a request may also come without one
Users == {"u1"}

\* a userId for which !userId holds
MissingUserId == ""

\* the keys the session map can hold
Keys == Users \cup {MissingUserId}

\* a request may also come without a message
MessageInputs == {Undefined} \cup {Some(m) : m \in Vocabulary}

\* the requests that can be in flight at once
MaxInFlight == 2

Requests == 1..MaxInFlight

\* what createChatCompletion resolves to when the provider answers
GeneratedReply == "<generated welcome message>"

NoResponse == [kind |-> "none", reply |-> "", done |-> FALSE, data |-> Undefined]

\* res.status(400).json({ error: "userId is required" })
BadRequest == [kind |-> "badRequest", reply |-> "userId is required", done |-> FALSE,
               data |-> Undefined]

\* the handler's promise rejects: no res.json is sent
Uncaught == [kind |-> "uncaught", reply |-> "Failed to save registration", done |-> FALSE,
             data |-> Undefined]

Json(reply, done, data) == [kind |-> "json", reply |-> reply, done |-> done, data |-> data]

Idle == [pc |-> "idle", userId |-> MissingUserId, message |-> Undefined, branch |-> "none",
         finalData |-> Undefined, response |-> NoResponse, genFailed |-> FALSE,
         turn |-> 0, scene |-> 0]

VARIABLES
    sessions,     \* userId -> Undefined | Some(SessionState)
    req,          \* request -> its position, its inputs, its locals and its response
    insertCalls,  \* userId -> number of supabase inserts issued for it
    registrations,\* the rows the Record Store holds
    script,       \* history: userId -> how far its messages follow the one-fact-per-turn order
    scenario,     \* history: userId -> how far its messages follow the end-to-end scenario
    race          \* history: two requests of one user that were in flight together

vars == <<sessions, req, insertCalls, registrations, script, scenario, race>>

\* message === undefined || message === null ? "" : String(message)
textOf(message) == IF message = Undefined THEN "" ELSE message[1]

\* sessions[userId] ?? { data: {}, currentStep: "name", completed: false }
sessionOf(userId) == IF sessions[userId] = Undefined THEN NewSession ELSE sessions[userId][1]

\* branchOf with the test of an empty message before the test of a completed session
branchOfEmptyFirst(userId, session, text) ==
    IF userId = MissingUserId THEN "reject"
    ELSE IF isBlank(text) THEN "empty"
    ELSE IF session.completed THEN "replay"
    ELSE "collect"

\* branchOf without the test of userId
branchOfAnyUserId(userId, session, text) ==
    IF session.completed THEN "replay"
    ELSE IF isBlank(text) THEN "empty"
    ELSE "collect"

\* which return statement of the handler the request is headed for:
\* if (!userId), if (session.completed), if (!text.trim()), or the extractor
branchOf(userId, session, text) ==
    IF userId = MissingUserId THEN "reject"
    ELSE IF session.completed THEN "replay"
    ELSE IF isBlank(text) THEN "empty"
    ELSE "collect"

\* the branch of request r as the session map stands
branchOfRequest(r) ==
    branchOf(req[r].userId, sessionOf(req[r].userId), textOf(req[r].message))

\* const finalData: RegistrationData = { name: session.data.name, ... }
finalDataOf(data) == [f \in Fields |-> data[f]]

(***************************************************************************)
(* History of the dialogue (read by the properties only).                   *)
(***************************************************************************)
\* direct answers, one fact each
NameAnswers == {"Ada", "My name is Ada Lovelace"}

DateAnswers == {"1990-05-10", "1990-02-31"}

GenderAnswers == {"male", "female", "other"}

YesAnswers == {"yes"}

NoAnswers == {"no"}

AppAnswers == {"Mint"}

AnswersFor(step) ==
    CASE step = "name" -> NameAnswers
      [] step = "dateOfBirth" -> DateAnswers
      [] step = "gender" -> GenderAnswers
      [] step = "usesBudgetApp" -> YesAnswers \cup NoAnswers
      [] step = "budgetAppName" -> AppAnswers

OffScript == Len(steps) + 1

\* pos messages so far, the k-th a direct answer for the k-th applicable field
ScriptStart == [pos |-> 0, app |-> FALSE]

ScriptOff == [pos |-> OffScript, app |-> FALSE]

ScriptStep(sc, text) ==
    IF sc.pos >= Len(steps) \/ text \notin AnswersFor(steps[sc.pos + 1]) THEN ScriptOff
    ELSE IF steps[sc.pos + 1] = "budgetAppName" /\ ~sc.app THEN ScriptOff
    ELSE [pos |-> sc.pos + 1, app |-> text \in YesAnswers]

\* the end-to-end scenario of a new user
Scenario == <<"", "Ada", "1990-05-10", "male", "no">>

OffScenario == Len(Scenario) + 1

ScenarioStep(pos, text) ==
    IF pos < Len(Scenario) /\ text = Scenario[pos + 1] THEN pos + 1 ELSE OffScenario

NoRace == [a |-> 0, b |-> 0, fa |-> "", fb |-> ""]

\* the fields the message would set if it were processed alone on the session
Supplies(session, message) ==
    LET after == collectFields(session, textOf(message)).data
    IN  IF session.completed \/ isBlank(textOf(message)) THEN {}
        ELSE {f \in Fields : IsUnset(session.data, f) /\ ~IsUnset(after, f)}

\* the first waiting request other than r that supplies one field, another than r's
Rival(r, userId, sup) ==
    LET rivals == {q \in Requests \ {r} :
                      /\ req[q].pc = "pending" /\ req[q].userId = userId
                      /\ Cardinality(sup[r]) = 1 /\ Cardinality(sup[q]) = 1
                      /\ sup[q] # sup[r]}
    IN  IF rivals = {} THEN 0 ELSE CHOOSE q \in rivals : \A o \in rivals : q <= o

OnlyField(fields) == CHOOSE f \in fields : TRUE

\* r arrives while another request of its user waits unhandled, and each of the two
\* messages, processed alone on the session as it is now, would set one field of its own
RaceAt(r, userId, message) ==
    IF race # NoRace \/ userId = MissingUserId THEN race
    ELSE LET sup == [q \in Requests |->
                        Supplies(sessionOf(userId),
                                 IF q = r THEN message ELSE req[q].message)]
             q == Rival(r, userId, sup)
         IN  IF q = 0 THEN race
             ELSE [a |-> r, b |-> q, fa |-> OnlyField(sup[r]), fb |-> OnlyField(sup[q])]

(***************************************************************************)
(* The request handler of POST /message.  It runs without suspension up to  *)
(* its first await; each await is a step of its own.                        *)
(***************************************************************************)
Init ==
    /\ sessions = [u \in Keys |-> Undefined]
    /\ req = [r \in Requests |-> Idle]
    /\ insertCalls = [u \in Keys |-> 0]
    /\ registrations = {}
    /\ script = [u \in Keys |-> ScriptStart]
    /\ scenario = [u \in Keys |-> 0]
    /\ race = NoRace

\* a client sends a request
Arrive(r, userId, message) ==
    /\ req[r].pc = "idle"
    /\ req' = [req EXCEPT ![r] = [Idle EXCEPT !.pc = "pending", !.userId = userId,
                                              !.message = message]]
    /\ race' = RaceAt(r, userId, message)
    /\ UNCHANGED <<sessions, insertCalls, registrations, script, scenario>>

\* what the history variables record of a message the handler has read
Heard(r) ==
    LET u == req[r].userId
        text == textOf(req[r].message)
        sc == ScriptStep(script[u], text)
        sn == ScenarioStep(scenario[u], text)
    IN  /\ script' = [script EXCEPT ![u] = sc]
        /\ scenario' = [scenario EXCEPT ![u] = sn]

\* this request's place in the histories
placed(r) ==
    LET u == req[r].userId
        text == textOf(req[r].message)
        sc == ScriptStep(script[u], text)
        sn == ScenarioStep(scenario[u], text)
    IN  [req[r] EXCEPT !.turn = IF sc = ScriptOff THEN 0 ELSE sc.pos,
                       !.scene = IF sn = OffScenario THEN 0 ELSE sn]

\* if (!userId) return res.status(400).json(...)
Reject(r) ==
    /\ req[r].pc = "pending"
    /\ branchOfRequest(r) = "reject"
    /\ req' = [req EXCEPT ![r].pc = "sent", ![r].branch = "reject", ![r].response = BadRequest]
    /\ UNCHANGED <<sessions, insertCalls, registrations, script, scenario, race>>

\* if (session.completed) { const reply = await buildWelcomeMessage(session.data); ...
StartReplay(r) ==
    LET u == req[r].userId
        session == sessionOf(u)
    IN  /\ req[r].pc = "pending"
        /\ branchOfRequest(r) = "replay"
        /\ sessions' = [sessions EXCEPT ![u] = Some(session)]
        /\ req' = [req EXCEPT ![r] = [placed(r) EXCEPT !.pc = "replay", !.branch = "replay"]]
        /\ Heard(r)
        /\ UNCHANGED <<insertCalls, registrations, race>>

\* StartEmpty without session.currentStep = "name"
StartEmptyKeepStep(r) ==
    LET u == req[r].userId
        session == sessionOf(u)
    IN  /\ req[r].pc = "pending"
        /\ branchOfRequest(r) = "empty"
        /\ sessions' = [sessions EXCEPT ![u] = Some(session)]
        /\ req' = [req EXCEPT ![r] = [placed(r) EXCEPT !.pc = "sent", !.branch = "empty",
                                  !.response = Json(NamePrompt, FALSE, Undefined)]]
        /\ Heard(r)
        /\ UNCHANGED <<insertCalls, registrations, race>>

\* if (!text.trim()) { session.currentStep = "name"; return res.json(...) }
StartEmpty(r) ==
    LET u == req[r].userId
        session == sessionOf(u)
    IN  /\ req[r].pc = "pending"
        /\ branchOfRequest(r) = "empty"
        /\ sessions' = [sessions EXCEPT ![u] = Some([session EXCEPT !.currentStep = "name"])]
        /\ req' = [req EXCEPT ![r] = [placed(r) EXCEPT !.pc = "sent", !.branch = "empty",
                                  !.response = Json(NamePrompt, FALSE, Undefined)]]
        /\ Heard(r)
        /\ UNCHANGED <<insertCalls, registrations, race>>

\* StartCollect without session.currentStep = nextField
StartCollectKeepStep(r) ==
    LET u == req[r].userId
        collected == collectFields(sessionOf(u), textOf(req[r].message))
        nextField == findNextField(collected.data)
        finalData == finalDataOf(collected.data)
    IN  /\ req[r].pc = "pending"
        /\ branchOfRequest(r) = "collect"
        /\ IF nextField = Undefined
           THEN \* session.completed = true; session.data = finalData;
                \* await saveRegistration(finalData, userId): the insert is issued
                /\ sessions' = [sessions EXCEPT ![u] =
                       Some([collected EXCEPT !.completed = TRUE, !.data = finalData])]
                /\ req' = [req EXCEPT ![r] = [placed(r) EXCEPT !.pc = "saving",
                                  !.branch = "complete", !.finalData = Some(finalData)]]
                /\ insertCalls' = [insertCalls EXCEPT ![u] = @ + 1]
           ELSE \* session.currentStep = nextField; return res.json({ reply, done: false })
                /\ sessions' = [sessions EXCEPT ![u] =
                       Some(collected)]
                /\ req' = [req EXCEPT ![r] = [placed(r) EXCEPT !.pc = "sent",
                                  !.branch = "prompt",
                                  !.response = Json(promptFor(nextField[1], collected.data),
                                                    FALSE, Undefined)]]
                /\ UNCHANGED insertCalls
        /\ Heard(r)
        /\ UNCHANGED <<registrations, race>>

\* StartCollect with session.completed = true left out
StartCollectNotCompleted(r) ==
    LET u == req[r].userId
        collected == collectFields(sessionOf(u), textOf(req[r].message))
        nextField == findNextField(collected.data)
        finalData == finalDataOf(collected.data)
    IN  /\ req[r].pc = "pending"
        /\ branchOfRequest(r) = "collect"
        /\ IF nextField = Undefined
           THEN \* session.completed = true; session.data = finalData;
                \* await saveRegistration(finalData, userId): the insert is issued
                /\ sessions' = [sessions EXCEPT ![u] =
                       Some([collected EXCEPT !.data = finalData])]
                /\ req' = [req EXCEPT ![r] = [placed(r) EXCEPT !.pc = "saving",
                                  !.branch = "complete", !.finalData = Some(finalData)]]
                /\ insertCalls' = [insertCalls EXCEPT ![u] = @ + 1]
           ELSE \* session.currentStep = nextField; return res.json({ reply, done: false })
                /\ sessions' = [sessions EXCEPT ![u] =
                       Some([collected EXCEPT !.currentStep = nextField[1]])]
                /\ req' = [req EXCEPT ![r] = [placed(r) EXCEPT !.pc = "sent",
                                  !.branch = "prompt",
                                  !.response = Json(promptFor(nextField[1], collected.data),
                                                    FALSE, Undefined)]]
                /\ UNCHANGED insertCalls
        /\ Heard(r)
        /\ UNCHANGED <<registrations, race>>

\* collectFields; findNextField; then the two outcomes of if (!nextField)
StartCollect(r) ==
    LET u == req[r].userId
        collected == collectFields(sessionOf(u), textOf(req[r].message))
        nextField == findNextField(collected.data)
        finalData == finalDataOf(collected.data)
    IN  /\ req[r].pc = "pending"
        /\ branchOfRequest(r) = "collect"
        /\ IF nextField = Undefined
           THEN \* session.completed = true; session.data = finalData;
                \* await saveRegistration(finalData, userId): the insert is issued
                /\ sessions' = [sessions EXCEPT ![u] =
                       Some([collected EXCEPT !.completed = TRUE, !.data = finalData])]
                /\ req' = [req EXCEPT ![r] = [placed(r) EXCEPT !.pc = "saving",
                                  !.branch = "complete", !.finalData = Some(finalData)]]
                /\ insertCalls' = [insertCalls EXCEPT ![u] = @ + 1]
           ELSE \* session.currentStep = nextField; return res.json({ reply, done: false })
                /\ sessions' = [sessions EXCEPT ![u] =
                       Some([collected EXCEPT !.currentStep = nextField[1]])]
                /\ req' = [req EXCEPT ![r] = [placed(r) EXCEPT !.pc = "sent",
                                  !.branch = "prompt",
                                  !.response = Json(promptFor(nextField[1], collected.data),
                                                    FALSE, Undefined)]]
                /\ UNCHANGED insertCalls
        /\ Heard(r)
        /\ UNCHANGED <<registrations, race>>

\* the insert resolves without an error: saveRegistration returns,
\* buildWelcomeMessage(finalData) calls createChatCompletion
SaveOk(r) ==
    /\ req[r].pc = "saving"
    /\ registrations' = registrations \cup {payload(req[r].finalData[1], req[r].userId)}
    /\ req' = [req EXCEPT ![r].pc = "welcoming"]
    /\ UNCHANGED <<sessions, insertCalls, script, scenario, race>>

\* SaveError that takes back session.completed
SaveErrorRollback(r) ==
    /\ req[r].pc = "saving"
    /\ req' = [req EXCEPT ![r].pc = "failed", ![r].response = Uncaught]
    /\ sessions' = [sessions EXCEPT ![req[r].userId] =
                       Some([sessionOf(req[r].userId) EXCEPT !.completed = FALSE])]
    /\ UNCHANGED <<insertCalls, registrations, script, scenario, race>>

\* the insert resolves with an error: throw new Error("Failed to save registration")
SaveError(r) ==
    /\ req[r].pc = "saving"
    /\ req' = [req EXCEPT ![r].pc = "failed", ![r].response = Uncaught]
    /\ UNCHANGED <<sessions, insertCalls, registrations, script, scenario, race>>

\* the record a done:true response carries: finalData, or session.data on a replay
recordOf(r) ==
    IF req[r].branch = "complete" THEN req[r].finalData[1] ELSE sessionOf(req[r].userId).data

\* createChatCompletion resolves: return res.json({ reply, done: true, data })
GenerateOk(r) ==
    /\ req[r].pc \in {"welcoming", "replay"}
    /\ req' = [req EXCEPT ![r].pc = "sent",
                          ![r].response = Json(GeneratedReply, TRUE, Some(recordOf(r)))]
    /\ UNCHANGED <<sessions, insertCalls, registrations, script, scenario, race>>

\* GenerateError without the catch: the handler throws
GenerateErrorFatal(r) ==
    /\ req[r].pc \in {"welcoming", "replay"}
    /\ req' = [req EXCEPT ![r].pc = "failed", ![r].genFailed = TRUE, ![r].response = Uncaught]
    /\ UNCHANGED <<sessions, insertCalls, registrations, script, scenario, race>>

\* createChatCompletion rejects: catch (error) { return fallback }
GenerateError(r) ==
    /\ req[r].pc \in {"welcoming", "replay"}
    /\ req' = [req EXCEPT ![r].pc = "sent", ![r].genFailed = TRUE,
                          ![r].response = Json(fallbackMessage(recordOf(r)), TRUE,
                                               Some(recordOf(r)))]
    /\ UNCHANGED <<sessions, insertCalls, registrations, script, scenario, race>>

\* the client has its answer (or its error): the request is over
Retire(r) ==
    /\ req[r].pc \in {"sent", "failed"}
    /\ req' = [req EXCEPT ![r] = Idle]
    /\ race' = IF r \in {race.a, race.b} THEN NoRace ELSE race
    /\ UNCHANGED <<sessions, insertCalls, registrations, script, scenario>>

\* the steps of one request after its arrival
Handle(r) ==
    \/ Reject(r)
    \/ StartReplay(r)
    \/ StartEmpty(r)
    \/ StartCollect(r)
    \/ SaveOk(r)
    \/ SaveError(r)
    \/ GenerateOk(r)
    \/ GenerateError(r)
    \/ Retire(r)

FirstRequest == CHOOSE r \in Requests : \A q \in Requests : r <= q

(***************************************************************************)
(* Spec: one client that waits for each answer before it sends its next     *)
(* message, any message of the vocabulary at each turn.                     *)
(***************************************************************************)
Next ==
    \/ \E u \in Keys : \E m \in MessageInputs : Arrive(FirstRequest, u, m)
    \/ Handle(FirstRequest)

Spec == Init /\ [][Next]_vars

(***************************************************************************)
(* ConcurrentSpec: up to MaxInFlight requests in flight at once, handled in *)
(* any order, over the messages of a four-turn dialogue.                    *)
(***************************************************************************)
ConcurrentVocabulary == {"", "Ada", "1990-05-10", "male", "no"}

ConcurrentInputs == {Some(m) : m \in ConcurrentVocabulary}

ConcurrentNext ==
    \E r \in Requests :
        \/ \E u \in Users : \E m \in ConcurrentInputs : Arrive(r, u, m)
        \/ Arrive(r, MissingUserId, Undefined)
        \/ Handle(r)

ConcurrentSpec == Init /\ [][ConcurrentNext]_vars

(***************************************************************************)
(* ExtractSpec: collectFields as a function, applied to every session value *)
(* of the shape the handler keeps (budgetAppName only with usesBudgetApp    *)
(* true, name unset only while the step is name, completed exactly when no  *)
(* field is left to ask) and to every message, once and again.              *)
(***************************************************************************)
InputRecords ==
    [name : {Undefined, Some("Ada")},
     dateOfBirth : {Undefined, Some("1990-05-10")},
     gender : {Undefined, Some("male"), Some("other")},
     usesBudgetApp : {Undefined, Some(TRUE), Some(FALSE)},
     budgetAppName : {Undefined, Some("Mint")}]

InputData ==
    {[f \in Fields |-> d[f]] :
        d \in {x \in InputRecords :
                  x.budgetAppName # Undefined => x.usesBudgetApp = Some(TRUE)}}

InputSessions ==
    {s \in [data : InputData, currentStep : Fields, completed : BOOLEAN] :
        /\ s.data["name"] = Undefined => s.currentStep = "name"
        /\ s.completed = (findNextField(s.data) = Undefined)}

ExtractInit ==
    /\ sessions \in {[u \in Keys |-> IF u \in Users THEN Some(s) ELSE Undefined] :
                        s \in InputSessions}
    /\ req = [r \in Requests |-> Idle]
    /\ insertCalls = [u \in Keys |-> 0]
    /\ registrations = {}
    /\ script = [u \in Keys |-> ScriptStart]
    /\ scenario = [u \in Keys |-> 0]
    /\ race = NoRace

\* collectFields(session, message)
Extract(u, message) ==
    /\ sessions' = [sessions EXCEPT ![u] = Some(collectFields(sessionOf(u), message))]
    /\ req' = [req EXCEPT ![FirstRequest].message = Some(message)]
    /\ UNCHANGED <<insertCalls, registrations, script, scenario, race>>

\* collectFields again, with the message of the last run
ExtractAgain(u) ==
    /\ req[FirstRequest].message # Undefined
    /\ sessions' = [sessions EXCEPT ![u] =
                       Some(collectFields(sessionOf(u), textOf(req[FirstRequest].message)))]
    /\ UNCHANGED <<req, insertCalls, registrations, script, scenario, race>>

ExtractNext ==
    \E u \in Users :
        \/ \E m \in AllMessages : Extract(u, m)
        \/ ExtractAgain(u)

ExtractSpec == ExtractInit /\ [][ExtractNext]_vars

(***************************************************************************)
(* SequenceSpec: findNextField and promptFor as functions, applied the way  *)
(* the handler applies them to every field set a Partial<RegistrationData>  *)
(* can hold, the empty string included.                                     *)
(***************************************************************************)
SequenceRecords ==
    [name : {Undefined, Some(""), Some("Ada")},
     dateOfBirth : {Undefined, Some(""), Some("1990-05-10")},
     gender : {Undefined, Some(""), Some("male")},
     usesBudgetApp : {Undefined, Some(TRUE), Some(FALSE)},
     budgetAppName : {Undefined, Some(""), Some("Mint")}]

SequenceData == {[f \in Fields |-> d[f]] : d \in SequenceRecords}

SequenceInit ==
    /\ sessions \in {[u \in Keys |-> IF u \in Users
                                     THEN Some([NewSession EXCEPT !.data = d])
                                     ELSE Undefined] : d \in SequenceData}
    /\ req = [r \in Requests |-> Idle]
    /\ insertCalls = [u \in Keys |-> 0]
    /\ registrations = {}
    /\ script = [u \in Keys |-> ScriptStart]
    /\ scenario = [u \in Keys |-> 0]
    /\ race = NoRace

\* const nextField = findNextField(session.data); if (!nextField) ... else
\* session.currentStep = nextField; const reply = promptFor(nextField, session.data)
Sequence(u) ==
    LET session == sessionOf(u)
        nextField == findNextField(session.data)
    IN  /\ req[FirstRequest].pc = "idle"
        /\ IF nextField = Undefined
           THEN /\ sessions' = [sessions EXCEPT ![u] = Some([session EXCEPT !.completed = TRUE])]
                /\ req' = [req EXCEPT ![FirstRequest] =
                              [Idle EXCEPT !.pc = "sent", !.userId = u, !.branch = "complete"]]
           ELSE /\ sessions' = [sessions EXCEPT ![u] =
                                  Some([session EXCEPT !.currentStep = nextField[1]])]
                /\ req' = [req EXCEPT ![FirstRequest] =
                              [Idle EXCEPT !.pc = "sent", !.userId = u, !.branch = "prompt",
                                  !.response = Json(promptFor(nextField[1], session.data),
                                                    FALSE, Undefined)]]
        /\ UNCHANGED <<insertCalls, registrations, script, scenario, race>>

SequenceNext == \E u \in Users : Sequence(u)

SequenceSpec == SequenceInit /\ [][SequenceNext]_vars

(***************************************************************************)
(* Properties                                                               *)
(***************************************************************************)
sessionData(u) == sessionOf(u).data

Finished(r) == req[r].pc \in {"sent", "failed"}

\* r is the turn that answers the last applicable field of the in-order dialogue
LastTurn(r) ==
    \/ req[r].turn = Len(steps)
    \/ req[r].turn = Len(steps) - 1 /\ textOf(req[r].message) \in NoAnswers

(* C1, as stated: in the dialogue that supplies one fact per turn in field  *)
(* order, every response before the last has done:false and the response of *)
(* turn 4 (budget app answered no) or turn 5 (answered yes) has done:true.  *)
C1_DoneOnExactTurn ==
    \A r \in Requests :
        (req[r].turn >= 1 /\ Finished(r)) =>
            /\ req[r].response.kind = "json"
            /\ req[r].response.done = LastTurn(r)

(* C1, amended: in that dialogue every turn before the last is answered     *)
(* with done:false and leaves the session collecting; the session completes *)
(* on exactly turn 4 (no) or turn 5 (yes), and that turn's response has     *)
(* done:true when the Record Store insert succeeds, while the request ends  *)
(* in an error, with no done:true response, when the insert fails.          *)
C1_CompletesOnExactTurn ==
    \A r \in Requests :
        (req[r].turn >= 1) =>
            /\ sessionOf(req[r].userId).completed = LastTurn(r)
            /\ LastTurn(r) =>
                  /\ req[r].pc \in {"saving", "welcoming", "sent", "failed"}
                  /\ req[r].pc = "sent" =>
                        req[r].response.kind = "json" /\ req[r].response.done
                  /\ req[r].pc = "failed" => req[r].response.kind = "uncaught"
            /\ ~LastTurn(r) =>
                  /\ req[r].pc = "sent"
                  /\ req[r].response.kind = "json" /\ ~req[r].response.done

\* the fifth in-order answer, the budget app's name, has been answered with done:true
C1_Witness ==
    \E r \in Requests :
        /\ req[r].turn = Len(steps) /\ req[r].pc = "sent"
        /\ req[r].response.done
        /\ sessionData(req[r].userId)["usesBudgetApp"] = Some(TRUE)

\* the record the end-to-end scenario must end with
ScenarioRecord ==
    [f \in Fields |->
        CASE f = "name" -> Some("Ada")
          [] f = "dateOfBirth" -> Some("1990-05-10")
          [] f = "gender" -> Some("male")
          [] f = "usesBudgetApp" -> Some(FALSE)
          [] f = "budgetAppName" -> Undefined]

\* the leading empty message of the scenario: the name prompt, done:false, no progress
ScenarioOpening(r) ==
    (req[r].scene = 1) =>
        /\ req[r].pc = "sent"
        /\ req[r].response = Json(NamePrompt, FALSE, Undefined)
        /\ sessionOf(req[r].userId) = NewSession

NoApp(u) == sessions[u] # Undefined /\ sessionData(u)["usesBudgetApp"] = Some(FALSE)

(* C3: once usesBudgetApp is false in a session it stays false, and in      *)
(* every state from then on budgetAppName is absent and findNextField does  *)
(* not return budgetAppName, whatever messages follow.                      *)
C3_NoAppIsPermanent ==
    /\ [](\A u \in Users :
            NoApp(u) => /\ sessionData(u)["budgetAppName"] = Undefined
                        /\ findNextField(sessionData(u)) # Some("budgetAppName"))
    /\ [][\A u \in Users : NoApp(u) => NoApp(u)']_vars

\* after the answer no, a message that names a budget app has been handled
C3_Witness ==
    \E r \in Requests :
        /\ req[r].pc = "sent" /\ req[r].branch = "prompt"
        /\ textOf(req[r].message) = "using YNAB"
        /\ NoApp(req[r].userId)
        /\ sessionData(req[r].userId)["name"] = Some("Ada")

\* the fields of the session that collectFields is applied to
extractData == sessionData(CHOOSE u \in Users : TRUE)

(* C4: collectFields never overwrites: every field that is set before it    *)
(* runs has the same value afterwards, and on a session whose applicable    *)
(* fields are all set it changes no field, run once or again.               *)
C4_NeverOverwrites ==
    [][/\ \A f \in Fields : ~IsUnset(extractData, f) => extractData'[f] = extractData[f]
       /\ findNextField(extractData) = Undefined => extractData' = extractData]_vars

\* a message full of facts has been run on a session whose fields were all set
C4_Witness ==
    /\ findNextField(extractData) = Undefined
    /\ extractData["name"] = Some("Ada") /\ extractData["gender"] = Some("other")
    /\ extractData["dateOfBirth"] = Some("1990-05-10")
    /\ extractData["budgetAppName"] = Some("Mint")
    /\ req[FirstRequest].message =
          Some("i'm Bob, male, born 1985-12-01, yes I use the app called YNAB!")

Completed(u) == sessions[u] # Undefined /\ sessions[u][1].completed

\* the handler of r takes its first step
Starts(r) == req[r].pc = "pending" /\ req'[r].pc # "pending"

(* C5: COMPLETE is terminal: once a session is completed no step changes    *)
(* its fields, its currentStep or its completed flag, and every later       *)
(* message for it, empty or not, goes to the closing message and is         *)
(* answered with done:true and the session's record.                        *)
C5_CompleteIsTerminal ==
    /\ [][\A u \in Users : Completed(u) => sessions'[u] = sessions[u]]_vars
    /\ [][\A r \in Requests :
            (Starts(r) /\ req[r].userId \in Users /\ Completed(req[r].userId)) =>
                req'[r].pc = "replay"]_vars
    /\ [][\A r \in Requests :
            (req[r].pc = "replay" /\ req'[r].pc # "replay") =>
                /\ req'[r].pc = "sent"
                /\ req'[r].response.kind = "json" /\ req'[r].response.done
                /\ req'[r].response.data = Some(sessionData(req[r].userId))]_vars

\* an empty message to a completed session has been answered with done:true
C5_Witness ==
    \E r \in Requests :
        /\ req[r].pc = "sent" /\ req[r].branch = "replay"
        /\ isBlank(textOf(req[r].message))
        /\ req[r].response.done
        /\ req[r].response.data = Some(sessionData(req[r].userId))

\* the two requests of the race have both finished
RaceOver == race # NoRace /\ Finished(race.a) /\ Finished(race.b)

\* ... and one of the two fields they supplied is not set
LostUpdate ==
    /\ RaceOver
    /\ \/ IsUnset(sessionData(req[race.a].userId), race.fa)
       \/ IsUnset(sessionData(req[race.a].userId), race.fb)

(* C6, as stated, for the runs that play its scenario: when two requests of *)
(* one userId that were in flight together, each supplying the answer of a  *)
(* different field, have both finished, only one of the two fields is set   *)
(* (an update was lost between a read of the session and its write-back).   *)
C6_RaceLosesUpdate == RaceOver => LostUpdate

(* C6, amended: the handler reads the session, extracts and writes back     *)
(* without a suspension point in between (its awaits come after the         *)
(* write), so requests of one userId are handled one after the other: when  *)
(* two requests that were in flight together, each supplying the answer of  *)
(* a different field, have both finished, both fields are set; no state     *)
(* with a lost update is reachable.                                         *)
C6_NoLostUpdate == ~LostUpdate

\* a race of two single-field answers is over
C6_Witness ==
    /\ RaceOver
    /\ race.fa # race.fb
    /\ ~IsUnset(sessionData(req[race.a].userId), race.fa)
    /\ ~IsUnset(sessionData(req[race.a].userId), race.fb)

\* the insert of u's registration has failed
SaveFailed(u) ==
    /\ Completed(u)
    /\ \A row \in registrations : row.user_id # u
    /\ \A r \in Requests : ~(req[r].userId = u /\ req[r].pc = "saving")

(* C7: when the insert of the completing request fails, the request ends in *)
(* an error without a done:true reply, the session stays completed with the *)
(* final fields, and the insert is never issued again for that userId.      *)
C7_FailedSaveIsNotRetried ==
    /\ [](\A r \in Requests :
            req[r].pc = "failed" =>
                /\ req[r].response.kind = "uncaught" /\ ~req[r].response.done
                /\ SaveFailed(req[r].userId)
                /\ sessionData(req[r].userId) = req[r].finalData[1])
    /\ [](\A u \in Users : SaveFailed(u) => insertCalls[u] = 1)
    /\ [][\A u \in Users :
            SaveFailed(u) => /\ SaveFailed(u)'
                             /\ sessions'[u] = sessions[u]
                             /\ insertCalls'[u] = insertCalls[u]]_vars

\* after a failed insert a later message has been answered, and no row was stored
C7_Witness ==
    \E u \in Users :
        /\ SaveFailed(u)
        /\ \E r \in Requests :
              /\ req[r].userId = u /\ req[r].branch = "replay" /\ req[r].pc = "sent"
              /\ req[r].response.done

\* "Registration complete for {name}, born {dob}, gender: {g}{app}. Welcome!"
ClosingTemplate(d) ==
    "Registration complete for " \o d["name"][1] \o ", born " \o d["dateOfBirth"][1]
        \o ", gender: " \o d["gender"][1]
        \o (IF d["usesBudgetApp"] = Some(TRUE)
            THEN ", budget app: " \o d["budgetAppName"][1]
            ELSE ", no budget app")
        \o ". Welcome!"

(* C8: a Text Generator failure on the closing message is not fatal: the    *)
(* request answers done:true with the final record and the template         *)
(* sentence as reply, and the step leaves the session, and all other state  *)
(* of the server, as a successful generation leaves it: unchanged.          *)
C8_GenerationFailureFallsBack ==
    /\ [](\A r \in Requests :
            req[r].genFailed =>
                /\ req[r].pc = "sent"
                /\ Completed(req[r].userId)
                /\ req[r].response = Json(ClosingTemplate(sessionData(req[r].userId)), TRUE,
                                          Some(sessionData(req[r].userId))))
    /\ [][\A r \in Requests :
            (req[r].pc \in {"welcoming", "replay"} /\ req'[r].pc # req[r].pc) =>
                /\ req'[r].pc = "sent" /\ req'[r].response.done
                /\ sessions' = sessions
                /\ registrations' = registrations /\ insertCalls' = insertCalls]_vars

\* the closing message of a completing request has fallen back to the template
C8_Witness ==
    \E r \in Requests :
        /\ req[r].genFailed /\ req[r].branch = "complete" /\ req[r].pc = "sent"
        /\ req[r].response.reply =
              "Registration complete for Ada, born 1990-05-10, gender: male, no budget app. Welcome!"

(* C9: a request without userId is rejected with the 400 error before       *)
(* anything else: no session is created or modified, and neither the Record *)
(* Store nor the Text Generator is called.                                  *)
C9_MissingUserIdRejected ==
    /\ [](sessions[MissingUserId] = Undefined /\ insertCalls[MissingUserId] = 0)
    /\ [][\A r \in Requests :
            (Starts(r) /\ req[r].userId = MissingUserId) =>
                /\ req'[r].pc = "sent" /\ req'[r].response = BadRequest
                /\ sessions' = sessions
                /\ insertCalls' = insertCalls /\ registrations' = registrations]_vars

\* a request without userId has been rejected while a session with a name exists
C9_Witness ==
    \E r \in Requests :
        /\ req[r].branch = "reject" /\ req[r].pc = "sent" /\ req[r].response = BadRequest
        /\ \E u \in Users : sessions[u] # Undefined /\ sessionData(u)["name"] = Some("Ada")

\* the handler of r starts on a message that is empty after trimming
BlankStart(r) ==
    Starts(r) /\ req[r].userId \in Users /\ isBlank(textOf(req[r].message))

\* currentStep reset to name, the name prompt with done:false, nothing else changed
EmptyEffect(r) ==
    /\ req'[r].pc = "sent"
    /\ req'[r].response = Json(NamePrompt, FALSE, Undefined)
    /\ sessions'[req[r].userId] =
          Some([sessionOf(req[r].userId) EXCEPT !.currentStep = "name"])

(* C10, as stated: in any session, completed ones included, a message that  *)
(* is empty after trimming resets currentStep to name, is answered with the *)
(* name prompt and done:false, and changes no field and not completed.      *)
C10_EmptyAlwaysResets == [][\A r \in Requests : BlankStart(r) => EmptyEffect(r)]_vars

(* C10, amended: in a new session or one that is COLLECTING, with any       *)
(* fields filled, a message that is empty after trimming resets currentStep *)
(* to name, is answered with the name prompt and done:false, and changes no *)
(* field and not completed; in a COMPLETE session it is handled like any    *)
(* other message: the session (currentStep included) is left unchanged and  *)
(* the request goes on to the closing message with done:true.               *)
C10_EmptyResetsWhileCollecting ==
    [][\A r \in Requests :
          BlankStart(r) =>
              IF Completed(req[r].userId)
              THEN sessions' = sessions /\ req'[r].pc = "replay"
              ELSE EmptyEffect(r)]_vars

\* a white-space message has reset the step of a session that was past the name
C10_Witness ==
    \E r \in Requests :
        /\ req[r].branch = "empty" /\ req[r].pc = "sent"
        /\ textOf(req[r].message) = "  "
        /\ sessionData(req[r].userId)["dateOfBirth"] = Some("1990-05-10")
        /\ sessionOf(req[r].userId).currentStep = "name"
        /\ ~sessionOf(req[r].userId).completed

\* a string field is absent or the empty string
Absent(d, f) == d[f] = Undefined \/ d[f] = Some("")

\* the first field to ask for, by the order name, dateOfBirth, gender, usesBudgetApp,
\* budgetAppName, the last one only for a usesBudgetApp other than false
FirstOpen(d) ==
    IF Absent(d, "name") THEN Some("name")
    ELSE IF Absent(d, "dateOfBirth") THEN Some("dateOfBirth")
    ELSE IF Absent(d, "gender") THEN Some("gender")
    ELSE IF d["usesBudgetApp"] = Undefined THEN Some("usesBudgetApp")
    ELSE IF d["usesBudgetApp"] = Some(TRUE) /\ Absent(d, "budgetAppName")
         THEN Some("budgetAppName")
    ELSE Undefined

\* the field set findNextField is applied to
sequenceData == sessionData(CHOOSE u \in Users : TRUE)

(* C11: for every field set findNextField returns the first field, in the   *)
(* order name, dateOfBirth, gender, usesBudgetApp, budgetAppName, that is   *)
(* absent or the empty string, skipping budgetAppName when usesBudgetApp is *)
(* false; it returns none exactly when all applicable fields are set; and   *)
(* it leaves the field set as it was.                                       *)
C11_FirstUnsetInOrder ==
    [][/\ sequenceData' = sequenceData
       /\ (req'[FirstRequest].branch = "complete") = (FirstOpen(sequenceData) = Undefined)
       /\ (req'[FirstRequest].branch = "complete") =
             (\A f \in Fields \ {"usesBudgetApp", "budgetAppName"} : ~Absent(sequenceData, f)
              /\ sequenceData["usesBudgetApp"] # Undefined
              /\ (sequenceData["usesBudgetApp"] = Some(TRUE)
                     => ~Absent(sequenceData, "budgetAppName")))
       /\ req'[FirstRequest].branch = "prompt" =>
             Some(sessions'[req'[FirstRequest].userId][1].currentStep) = FirstOpen(sequenceData)
      ]_vars

\* asked for the date of birth of a field set whose name is set and whose
\* dateOfBirth is the empty string, with a budgetAppName that is skipped
C11_Witness ==
    /\ req[FirstRequest].branch = "prompt"
    /\ sessionOf(req[FirstRequest].userId).currentStep = "dateOfBirth"
    /\ sequenceData["name"] = Some("Ada")
    /\ sequenceData["dateOfBirth"] = Some("")
    /\ sequenceData["usesBudgetApp"] = Some(FALSE)
    /\ sequenceData["budgetAppName"] = Some("")

\* the number a digit stands for
DigitValue(c) == CHOOSE k \in 0..9 : Ch(DigitAlphabet, k + 1) = c

TwoDigits(s, i) == 10 * DigitValue(Ch(s, i)) + DigitValue(Ch(s, i + 1))

\* s has four digits, a dash, two digits, a dash and two digits at position i
DateLikeAt(s, i) ==
    /\ i >= 1 /\ i + 9 <= Len(s)
    /\ \A k \in {0, 1, 2, 3, 5, 6, 8, 9} : Ch(s, i + k) \in DigitChars
    /\ Ch(s, i + 4) = "-" /\ Ch(s, i + 7) = "-"

\* month in 01..12 and day in 01..31, of the date at position i
InRangeAt(s, i) == TwoDigits(s, i + 5) \in 1..12 /\ TwoDigits(s, i + 8) \in 1..31

\* the date at position i has no letter, digit or underscore right before or after it
AloneAt(s, i) ==
    /\ i = 1 \/ ~IsWordChar(Ch(s, i - 1))
    /\ i + 9 = Len(s) \/ ~IsWordChar(Ch(s, i + 10))

\* what a message holds of YYYY-MM-DD substrings
DateFacts ==
    [m \in AllMessages |->
        LET all == {i \in 1..Len(m) : DateLikeAt(m, i)}
            alone == {i \in all : AloneAt(m, i)}
            first == IF alone = {} THEN 0 ELSE CHOOSE i \in alone : \A j \in alone : i <= j
        IN  [any |-> all # {},
             allInRange |-> \A i \in all : InRangeAt(m, i),
             noneInRange |-> \A i \in all : ~InRangeAt(m, i),
             first |-> IF first = 0 THEN "" ELSE SubSeq(m, first, first + 9),
             firstInRange |-> first # 0 /\ InRangeAt(m, first)]]

DatePrompt == "What is your date of birth? (YYYY-MM-DD)"

\* the handler of r runs collectFields on a session whose dateOfBirth is unset
DateStep(r) ==
    /\ Starts(r) /\ req'[r].branch \in {"prompt", "complete"}
    /\ Absent(sessionData(req[r].userId), "dateOfBirth")

\* dateOfBirth is still unset after the step of r, no error is raised, and with the
\* name set the reply is the dateOfBirth prompt again
DateStaysUnset(r) ==
    /\ Absent(sessions'[req[r].userId][1].data, "dateOfBirth")
    /\ req'[r].pc = "sent" /\ req'[r].response.kind = "json"
    /\ ~Absent(sessions'[req[r].userId][1].data, "name") =>
          /\ req'[r].response = Json(DatePrompt, FALSE, Undefined)
          /\ sessions'[req[r].userId][1].currentStep = "dateOfBirth"

(* C12, as stated: when dateOfBirth is unset and the message contains a     *)
(* YYYY-MM-DD substring, the date is stored if its month is in 01..12 and   *)
(* its day in 01..31 (1990-02-31 is stored), and otherwise no error is      *)
(* raised, dateOfBirth stays unset and, with the name set, the reply is the *)
(* dateOfBirth prompt again.  (Of a message with several such substrings,   *)
(* some in range and some not, nothing is asked here.)                      *)
C12_DateStoredIffInRange ==
    [][\A r \in Requests :
          LET facts == DateFacts[textOf(req[r].message)]
          IN  (DateStep(r) /\ facts.any) =>
                  /\ facts.allInRange =>
                        ~Absent(sessions'[req[r].userId][1].data, "dateOfBirth")
                  /\ facts.noneInRange => DateStaysUnset(r)]_vars

(* C12, amended: when dateOfBirth is unset, only the leftmost YYYY-MM-DD    *)
(* substring that has no letter, digit or underscore right before or after  *)
(* it is looked at: it is stored iff its month is in 01..12 and its day in  *)
(* 01..31, with no calendar check (1990-02-31 is stored).  Otherwise (no    *)
(* such substring, or that one out of range, whatever other dates the       *)
(* message holds) no error is raised, dateOfBirth stays unset and, with the *)
(* name set, the reply is the dateOfBirth prompt again.                     *)
C12_LeftmostDateStoredIffInRange ==
    [][\A r \in Requests :
          LET facts == DateFacts[textOf(req[r].message)]
          IN  DateStep(r) =>
                  IF facts.firstInRange
                  THEN sessions'[req[r].userId][1].data["dateOfBirth"] = Some(facts.first)
                  ELSE DateStaysUnset(r)]_vars

\* 1990-02-31 has been stored, and a date glued to a letter has not
C12_Witness ==
    \E r \in Requests :
        /\ req[r].pc = "sent" /\ req[r].branch = "prompt"
        /\ textOf(req[r].message) = "1990-02-31"
        /\ sessionData(req[r].userId)["dateOfBirth"] = Some("1990-02-31")
        /\ sessionData(req[r].userId)["name"] = Some("x1990-05-10")

\* which of the words male, female, other the lowercase text of a message contains
GenderTests ==
    [m \in AllMessages |->
        [w \in {"male", "female", "other"} |-> includes(toLowerCase(m), w)]]

\* the handler of r runs collectFields on a session whose gender is unset
GenderStep(r) ==
    /\ Starts(r) /\ req'[r].branch \in {"prompt", "complete"}
    /\ Absent(sessionData(req[r].userId), "gender")

(* C13: when gender is unset the extractor tests whether the lowercase      *)
(* message contains male, then female, then other, and stores the value of  *)
(* the first test that matches; when none matches gender stays unset.       *)
C13_FirstGenderTestWins ==
    [][\A r \in Requests :
          LET has == GenderTests[textOf(req[r].message)]
          IN  GenderStep(r) =>
                  sessions'[req[r].userId][1].data["gender"] =
                      IF has["male"] THEN Some("male")
                      ELSE IF has["female"] THEN Some("female")
                      ELSE IF has["other"] THEN Some("other")
                      ELSE sessionData(req[r].userId)["gender"]]_vars

\* the first message of a session names two genders, and male has been stored
C13_Witness ==
    \E r \in Requests :
        /\ req[r].pc = "sent" /\ req[r].branch = "prompt"
        /\ textOf(req[r].message) = "male or other"
        /\ sessionData(req[r].userId)["name"] = Some("male or other")
        /\ sessionData(req[r].userId)["gender"] = Some("male")

\* a record of the shape RegistrationFields asks of a complete registration
WellFormed(d) ==
    /\ ~Absent(d, "name")
    /\ d["dateOfBirth"] # Undefined
    /\ Len(d["dateOfBirth"][1]) = 10
    /\ DateLikeAt(d["dateOfBirth"][1], 1) /\ InRangeAt(d["dateOfBirth"][1], 1)
    /\ d["gender"] \in {Some("male"), Some("female"), Some("other")}
    /\ d["usesBudgetApp"] \in {Some(TRUE), Some(FALSE)}
    /\ d["usesBudgetApp"] = Some(TRUE) => ~Absent(d, "budgetAppName")
    /\ d["usesBudgetApp"] = Some(FALSE) => d["budgetAppName"] = Undefined

(* C14: in every reachable state with completed = true the record is well   *)
(* formed: name is a non-empty string, dateOfBirth is a strict YYYY-MM-DD   *)
(* with month 01..12 and day 01..31, gender is male, female or other,       *)
(* usesBudgetApp is a boolean, and budgetAppName is set when usesBudgetApp  *)
(* is true and absent when it is false.                                     *)
C14_CompleteRecordWellFormed ==
    \A u \in Users : Completed(u) => WellFormed(sessionData(u))

\* a completed record with a budget app, after a message with an out-of-range date
C14_Witness ==
    \E u \in Users :
        /\ Completed(u)
        /\ sessionData(u)["name"] = Some("1990-13-01")
        /\ sessionData(u)["dateOfBirth"] = Some("1990-02-31")
        /\ sessionData(u)["usesBudgetApp"] = Some(TRUE)
        /\ sessionData(u)["budgetAppName"] = Some("YNAB")

\* the handler of r runs collectFields and answers with a prompt
PromptStep(r) == Starts(r) /\ req'[r].branch = "prompt"

(* C15: after every non-empty message that leaves the session collecting,   *)
(* currentStep is the first unset applicable field of the session's field   *)
(* set, and the reply is promptFor's question for that field, done:false.   *)
C15_PromptsFirstUnsetField ==
    [][\A r \in Requests :
          PromptStep(r) =>
              LET after == sessions'[req[r].userId][1]
              IN  /\ ~after.completed
                  /\ Some(after.currentStep) = FirstOpen(after.data)
                  /\ req'[r].pc = "sent"
                  /\ req'[r].response =
                        Json(promptFor(after.currentStep, after.data), FALSE, Undefined)]_vars

\* the answer male has been followed by the budget app question
C15_Witness ==
    \E r \in Requests :
        /\ req[r].pc = "sent" /\ req[r].branch = "prompt"
        /\ textOf(req[r].message) = "male"
        /\ sessionOf(req[r].userId).currentStep = "usesBudgetApp"
        /\ req[r].response.reply = "Do you use a budget app? (yes/no)"
        /\ sessionData(req[r].userId)["name"] = Some("x1990-05-10")

\* promptFor's phrasing of budgetAppName for a usesBudgetApp that is not true
OtherAppPrompt == "What is the name of your budget app?"

(* C16: whenever promptFor is invoked for budgetAppName, usesBudgetApp is    *)
(* true, and the reply is the phrasing for true: in no run of the dialogue  *)
(* is the other phrasing sent as a reply.                                   *)
C16_AppPromptOnlyWhenUsed ==
    /\ [](\A r \in Requests : req[r].response.reply # OtherAppPrompt)
    /\ [][\A r \in Requests :
            (PromptStep(r) /\ sessions'[req[r].userId][1].currentStep = "budgetAppName") =>
                /\ sessions'[req[r].userId][1].data["usesBudgetApp"] = Some(TRUE)
                /\ req'[r].response.reply = "What is the name of the budget app you use?"]_vars

\* the answer yes has been followed by the question for the budget app's name
C16_Witness ==
    \E r \in Requests :
        /\ req[r].pc = "sent" /\ req[r].branch = "prompt"
        /\ textOf(req[r].message) = "yes"
        /\ sessionOf(req[r].userId).currentStep = "budgetAppName"
        /\ req[r].response.reply = "What is the name of the budget app you use?"

(* C17: under every interleaving of requests, several of one userId in      *)
(* flight at once included, the Record Store insert is issued at most once  *)
(* per userId: the step that issues it is the step that sets completed,     *)
(* before the request first suspends, and no request that starts on a       *)
(* completed session issues one.                                            *)
C17_InsertAtMostOnce ==
    /\ [](\A u \in Keys : insertCalls[u] <= 1)
    /\ [][\A u \in Users :
            insertCalls'[u] # insertCalls[u] =>
                /\ ~Completed(u) /\ Completed(u)'
                /\ insertCalls'[u] = insertCalls[u] + 1]_vars

\* while the insert of one request is pending, a second request with the same
\* completing answer has gone to the closing message instead
C17_Witness ==
    \E u \in Users : \E r, q \in Requests :
        /\ r # q /\ req[r].userId = u /\ req[q].userId = u
        /\ req[r].pc = "saving"
        /\ req[q].pc = "replay" /\ textOf(req[q].message) = "no"
        /\ insertCalls[u] = 1

(* C18: in every reachable state no session's gender is female: every       *)
(* message whose lowercase text contains female contains male too, the test *)
(* of male comes first, and so such a message, the reply female to the      *)
(* gender prompt included, is recorded as male when gender is unset.        *)
C18_FemaleIsNeverStored ==
    /\ [](\A u \in Users : sessionData(u)["gender"] # Some("female"))
    /\ [](\A m \in AllMessages : GenderTests[m]["female"] => GenderTests[m]["male"])
    /\ [][\A r \in Requests :
            (GenderStep(r) /\ GenderTests[textOf(req[r].message)]["female"]) =>
                sessions'[req[r].userId][1].data["gender"] = Some("male")]_vars

\* the reply female to the gender prompt has been recorded as male
C18_Witness ==
    \E r \in Requests :
        /\ req[r].pc = "sent" /\ req[r].turn = 3
        /\ textOf(req[r].message) = "female"
        /\ sessionData(req[r].userId)["gender"] = Some("male")
        /\ req[r].response.reply = "Do you use a budget app? (yes/no)"

\* the handler of r runs collectFields (the message is not empty, the session not complete)
CollectStep(r) == Starts(r) /\ req'[r].branch \in {"prompt", "complete"}

(* C19: in every reachable state of a session, name unset implies           *)
(* currentStep = name; so the first non-empty message processed for a       *)
(* session sets name, by the pattern or by the whole trimmed message, and   *)
(* name stays as set: after a non-empty message findNextField never returns *)
(* name and the reply of the prompt branch is never the name prompt.        *)
C19_NameSetByFirstMessage ==
    /\ [](\A u \in Users :
            (sessions[u] # Undefined /\ Absent(sessionData(u), "name")) =>
                sessionOf(u).currentStep = "name")
    /\ [][\A r \in Requests :
            CollectStep(r) =>
                LET after == sessions'[req[r].userId][1]
                IN  /\ ~Absent(after.data, "name")
                    /\ findNextField(after.data) # Some("name")
                    /\ req'[r].branch = "prompt" =>
                          /\ after.currentStep # "name"
                          /\ req'[r].response.reply # NamePrompt]_vars
    /\ [][\A u \in Users :
            ~Absent(sessionData(u), "name") =>
                sessions'[u][1].data["name"] = sessionData(u)["name"]]_vars

\* a first message without a name pattern has become the name, whole
C19_Witness ==
    \E r \in Requests :
        /\ req[r].pc = "sent" /\ req[r].branch = "prompt"
        /\ textOf(req[r].message) = "yes"
        /\ sessionData(req[r].userId)["name"] = Some("yes")
        /\ sessionData(req[r].userId)["usesBudgetApp"] = Some(TRUE)
        /\ sessionOf(req[r].userId).currentStep = "dateOfBirth"

\* the session of u is collecting and asks for the budget app's name
AtAppStep(u) ==
    /\ sessions[u] # Undefined
    /\ ~sessionOf(u).completed
    /\ sessionOf(u).currentStep = "budgetAppName"

(* C20: whenever a collecting session has currentStep = budgetAppName, the  *)
(* four other fields are set and usesBudgetApp is true; and every non-empty *)
(* message processed in that state sets budgetAppName and completes the     *)
(* session in that same turn.                                               *)
C20_AppNameTurnCompletes ==
    /\ [](\A u \in Users :
            AtAppStep(u) =>
                /\ \A f \in {"name", "dateOfBirth", "gender"} : ~Absent(sessionData(u), f)
                /\ sessionData(u)["usesBudgetApp"] = Some(TRUE)
                /\ Absent(sessionData(u), "budgetAppName"))
    /\ [][\A r \in Requests :
            (CollectStep(r) /\ AtAppStep(req[r].userId)) =>
                /\ ~Absent(sessions'[req[r].userId][1].data, "budgetAppName")
                /\ sessions'[req[r].userId][1].completed
                /\ req'[r].branch = "complete"]_vars

\* asked for the budget app's name, the user has answered no, and that is the name stored
C20_Witness ==
    \E r \in Requests :
        /\ req[r].branch = "complete" /\ req[r].pc = "sent" /\ req[r].response.done
        /\ textOf(req[r].message) = "no"
        /\ sessionData(req[r].userId)["usesBudgetApp"] = Some(TRUE)
        /\ sessionData(req[r].userId)["budgetAppName"] = Some("no")

==========================================================================
